---- MODULE Spec2Model ----
(***************************************************************************)
(* A model of rsack's Bugs downloader (src/rsack/bugs.py): the album       *)
(* orchestration (_album, _album_path, _download_cover), the per-track     *)
(* resumable transfer (_download, _return_bytes, _exist_check) run by a    *)
(* bounded worker pool, and the filesystem they act on.                    *)
(*                                                                         *)
(* Strings are sequences of tokens (TLA+ strings); a token stands for a    *)
(* substring that the code's string operations treat as a unit, so that    *)
(* str.replace, str.split and str.endswith are computed token by token.    *)
(* A file is its content and the tag writes made to it; an open handle is  *)
(* the path its file has now, so that it follows the file across a rename, *)
(* as on POSIX.                                                            *)
(***************************************************************************)
EXTENDS Integers, Sequences, FiniteSets, TLC

\* ------------------------------------------------------------------ bounds
MaxTracks == 2      \* tracks per album
MaxDisc == 2        \* disc indices 1..MaxDisc
TrackChunks == 2    \* a track's size N, in chunks
MaxRuns == 2        \* invocations of the album download on the same disk
MaxThreads == 2     \* settings['threads'] ranges over 1..MaxThreads
PathMax == 24       \* the OS path limit, scaled down
ENAMETOOLONG == 36  \* the errno the fallback reacts to

\* ----------------------------------------------------------------- strings
RECURSIVE StrLen(_)
StrLen(s) == IF s = <<>> THEN 0 ELSE Len(Head(s)) + StrLen(Tail(s))

\* str.replace(old, new): every occurrence of the token old becomes new
RECURSIVE Replace(_, _, _)
Replace(s, old, new) ==
    IF s = <<>> THEN <<>>
    ELSE (IF Head(s) = old THEN new ELSE <<Head(s)>>) \o Replace(Tail(s), old, new)

\* str.endswith(suffix), suffix one token
EndsWith(s, suffix) == s # <<>> /\ s[Len(s)] = suffix

\* str.split(sep)[0]: the part before the first occurrence of sep
RECURSIVE SplitFirst(_, _)
SplitFirst(s, sep) ==
    IF s = <<>> \/ Head(s) = sep THEN <<>>
    ELSE <<Head(s)>> \o SplitFirst(Tail(s), sep)

\* str(n) and f"{n:02d}" for the small numbers of the model
Digits == <<"1", "2", "3", "4", "5", "6", "7", "8", "9">>
Str(n) == IF n = 0 THEN "0" ELSE Digits[n]
Pad2(n) == "0" \o Str(n)

\* rsack.utils.sanitize: characters a file name cannot hold are removed
Forbidden == {"/", ":", "?"}
Allowed(tok) == tok \notin Forbidden
Sanitize(s) == SelectSeq(s, Allowed)

\* os.path.join(a, b)
Join(a, b) ==
    IF b # <<>> /\ Head(b) = "/" THEN b
    ELSE IF a = <<>> \/ a[Len(a)] = "/" THEN a \o b
    ELSE a \o <<"/">> \o b

\* ------------------------------------------------------------------ inputs
VariousArtists == <<"Various Artists">>
EditMe == <<"EDIT ME">>
BasePath == <<"out", "/">>

ShortArtist == <<"AB">>
SlashArtist == <<"AC", "/", "DC">>
LongArtist == <<"Artist One, Artist Two, Artist Three">>
ShortTitle == <<"T">>
LongTitle == <<"A Title That Is Far Too Long To Be Stored">>

ArtistNames == {ShortArtist, SlashArtist, LongArtist}
AlbumTitles == {ShortTitle, LongTitle}
Templates == { <<"{artist}", " - ", "{title}">>, <<"{title}">>, <<"{artist}">> }
DefaultTemplate == <<"{artist}", " - ", "{title}">>
TrackTitles == { <<"a">>, <<"b">> }

\* the n-th track of a list with the given disc indices and titles; the API
\* numbers tracks within their disc
TrackNo(discSeq, n) == Cardinality({ i \in 1..n : discSeq[i] = discSeq[n] })
MkTracks(discSeq, titleSeq) ==
    [ n \in 1..Len(discSeq) |->
        [ track_id |-> n, disc_id |-> discSeq[n], track_no |-> TrackNo(discSeq, n),
          track_title |-> titleSeq[n] ] ]

SeqsOf(S, n) == [1..n -> S]
TrackLists ==
    UNION { { MkTracks(d, t) : d \in SeqsOf(1..MaxDisc, n),
                               t \in { x \in SeqsOf(TrackTitles, n) : x[1] = <<"a">> } }
            : n \in 1..MaxTracks }

\* client.get_album(id)['list'][0]['album_info']['result']
Catalogs ==
    { [ artist_disp_nm |-> a, title |-> ti, title_local |-> ti, album_id |-> <<"7">>,
        artist_id |-> <<"3">>, album_tp |-> <<"EP">>, tracks |-> tr ]
      : a \in ArtistNames, ti \in AlbumTitles, tr \in TrackLists }

AllSettings ==
    [ path : {BasePath}, template : Templates, threads : 1..MaxThreads ]

\* the downloads the model explores: every track list under the plain
\* names and template (the pool concurrent against the server that honours
\* Range, sequential against the other), and every name and template for
\* one-track albums
Plain(c, s, srv) ==
    /\ c.artist_disp_nm = ShortArtist
    /\ c.title = ShortTitle
    /\ s.template = DefaultTemplate
    /\ srv = "range" \/ s.threads = 1
Small(c, s, srv) == Len(c.tracks) = 1 /\ s.threads = 1 /\ srv = "range"


\* ------------------------------------------------------------------- state
VARIABLES
    settings,     \* Settings().Bugs(): path, template, threads
    catalog,      \* the album as the vendor API returns it
    server,       \* the listen endpoint: "range" (honours Range), "any"
    album,        \* self.album
    album_path,   \* self.album_path (<<>>: not set)
    discs,        \* self.discs ("unset", "True", "False")
    cover_path,   \* self.cover_path (<<>>: not set)
    dirs,         \* the directories on disk
    files,        \* the files on disk: path -> [data, tags]
    phase,        \* where the orchestrating thread is in _album
    task,         \* one worker task per track: its position and locals
    run,          \* the number of the current invocation
    attempts,     \* os.makedirs(self.album_path) calls of this invocation
    tagger,       \* one call of _tag followed step by step: its position and locals
    artist        \* _artist: the artist's id, the album list, the albums taken

vars == << settings, catalog, server, album, album_path, discs, cover_path,
           dirs, files, phase, task, run, attempts, tagger, artist >>

\* the download is of one album, not of an artist
NoArtist == [ id |-> 0, list |-> <<>>, i |-> 0 ]

\* no call of _tag is followed step by step
NoTagger == [ pc |-> "off" ]

NoAlbum ==
    [ artist_disp_nm |-> <<>>, title |-> <<>>, title_local |-> <<>>, album_id |-> <<>>,
      artist_id |-> <<>>, album_tp |-> <<>>, tracks |-> <<>>, disc_total |-> 0 ]

\* a task's locals; they are gone when _download returns
IdleTask ==
    [ pc |-> "idle", file_path |-> <<>>, range |-> -1, url |-> <<>>, status |-> 0,
      quality |-> "", rem |-> <<>>, fd |-> <<>>, c_path |-> <<>> ]

Tracks == 1..Len(catalog.tracks)

\* -------------------------------------------------------------- filesystem
TooLong(p) == StrLen(p) > PathMax

\* os.path.exists
Exists(p) == ~TooLong(p) /\ (p \in dirs \/ p \in DOMAIN files)

\* the errno os.makedirs(p) can end with (0: created)
OtherErrnos == {13}
MakedirsOutcomes(p) == IF TooLong(p) THEN {ENAMETOOLONG} ELSE {0} \cup OtherErrnos

\* the directory a file path lies in
RECURSIVE DirName(_)
DirName(p) ==
    IF p = <<>> THEN <<>>
    ELSE IF p[Len(p)] = "/" THEN SubSeq(p, 1, Len(p) - 1)
    ELSE DirName(SubSeq(p, 1, Len(p) - 1))

\* open(p, 'ab') / open(p, 'wb') can succeed
CanOpen(p) == ~TooLong(p) /\ DirName(p) \in dirs

\* os.path.getsize
Size(p) == Len(files[p].data)

\* ------------------------------------------------------------ path planner
\* insert_total_tracks: each track's total is the number of tracks on its disc
InsertTotalTracks(tracks) ==
    [ n \in 1..Len(tracks) |->
        [ track_id |-> tracks[n].track_id, disc_id |-> tracks[n].disc_id,
          track_no |-> tracks[n].track_no, track_title |-> tracks[n].track_title,
          track_total |->
              Cardinality({ i \in 1..Len(tracks) : tracks[i].disc_id = tracks[n].disc_id }) ] ]

\* self.album['disc_total']
DiscTotal(tracks) == tracks[Len(tracks)].disc_id

KeyOrder == << "artist", "title", "local_title", "album_id", "artist_id", "type" >>
KeyValue(a, k) ==
    CASE k = "artist" -> a.artist_disp_nm
      [] k = "title" -> a.title
      [] k = "local_title" -> a.title_local
      [] k = "album_id" -> a.album_id
      [] k = "artist_id" -> a.artist_id
      [] k = "type" -> a.album_tp

RECURSIVE TemplateFrom(_, _, _)
TemplateFrom(template, a, i) ==
    IF i > Len(KeyOrder) THEN template
    ELSE TemplateFrom(
             Replace(template, "{" \o KeyOrder[i] \o "}", Sanitize(KeyValue(a, KeyOrder[i]))),
             a, i + 1)

\* _template
Template(a) == TemplateFrom(settings.template, a, 1)

\* the path the retry of the fallback creates
RetryPath(artistLonger) ==
    IF artistLonger THEN album_path ELSE settings.path \o EditMe

DiscDir(i) == Join(album_path, <<"Disc ", Str(i)>>)

\* ------------------------------------------------------------ orchestrator
Init ==
    /\ settings \in AllSettings
    /\ catalog \in Catalogs
    /\ server \in {"range", "any"}
    /\ Plain(catalog, settings, server) \/ Small(catalog, settings, server)
    /\ album = NoAlbum
    /\ album_path = <<>>
    /\ discs = "unset"
    /\ cover_path = <<>>
    /\ dirs = {}
    /\ files = <<>>
    /\ phase = "album"
    /\ task = [ t \in Tracks |-> IdleTask ]
    /\ run = 1
    /\ attempts = 0
    /\ tagger = NoTagger
    /\ artist = NoArtist

\* self.album once _album has added the totals, lines 59-64
AlbumInfo(c) ==
    [ artist_disp_nm |-> c.artist_disp_nm, title |-> c.title,
      title_local |-> c.title_local, album_id |-> c.album_id,
      artist_id |-> c.artist_id, album_tp |-> c.album_tp,
      tracks |-> InsertTotalTracks(c.tracks),
      disc_total |-> DiscTotal(c.tracks) ]

\* _album, lines 59-64
AlbumBegin ==
    /\ phase = "album"
    /\ album' = AlbumInfo(catalog)
    /\ phase' = "path"
    /\ UNCHANGED << artist, tagger, settings, catalog, server, album_path, discs, cover_path, dirs,
                    files, task, run, attempts >>

\* _album_path, lines 91-96: the first attempt
AlbumPathFirst ==
    /\ phase = "path"
    /\ LET p == settings.path \o Template(album) IN
       /\ album_path' = p
       /\ IF Exists(p)
          THEN /\ phase' = "discs"
               /\ UNCHANGED << dirs, attempts >>
          ELSE \E e \in MakedirsOutcomes(p) :
               /\ attempts' = attempts + 1
               /\ dirs' = IF e = 0 THEN dirs \cup {p} ELSE dirs
               \* errno 36 enters the fallback; any other OSError is dropped
               /\ phase' = IF e = ENAMETOOLONG THEN "fallback" ELSE "discs"
    /\ UNCHANGED << artist, tagger, settings, catalog, server, album, discs, cover_path, files, task, run >>

\* _album_path, lines 97-107: the fallback and its retry
AlbumPathFallback ==
    /\ phase = "fallback"
    /\ LET artistLonger == StrLen(album.artist_disp_nm) > StrLen(album.title)
           p == RetryPath(artistLonger)
       IN
       /\ album' = IF artistLonger
                   THEN [album EXCEPT !.artist_disp_nm = VariousArtists]
                   ELSE album
       /\ album_path' = p
       /\ IF Exists(p)
          THEN /\ phase' = "discs"
               /\ UNCHANGED << dirs, attempts >>
          ELSE \E e \in MakedirsOutcomes(p) :
               /\ attempts' = attempts + 1
               /\ dirs' = IF e = 0 THEN dirs \cup {p} ELSE dirs
               \* an error here leaves _album_path through logger.catch
               /\ phase' = IF e = 0 THEN "discs" ELSE "cover"
    /\ UNCHANGED << artist, tagger, settings, catalog, server, discs, cover_path, files, task, run >>

\* _album_path, lines 110-117: the disc directories; creating the (k+1)-th
\* fails and leaves _album_path through logger.catch
DiscDirs ==
    /\ phase = "discs"
    /\ IF album.disc_total > 1
       THEN /\ discs' = "True"
            /\ \E k \in 0..album.disc_total :
               /\ \A i \in 1..k : ~TooLong(DiscDir(i))
               /\ k < album.disc_total => ~Exists(DiscDir(k + 1))
               \* os.makedirs makes the missing parents too
               /\ dirs' = dirs \cup { DiscDir(i) : i \in 1..k }
                               \cup (IF k > 0 THEN {album_path} ELSE {})
       ELSE /\ discs' = "False"
            /\ UNCHANGED dirs
    /\ phase' = "cover"
    /\ UNCHANGED << artist, tagger, settings, catalog, server, album, album_path, cover_path, files,
                    task, run, attempts >>

CoverData == <<"cover">>

\* _download_cover under logger.catch, as the other methods are
CoverErrorCaught == "pool"

\* where _album is after _download_cover raised: nothing catches it
CoverError == "raised"

\* _download_cover, lines 204-212
DownloadCover ==
    /\ phase = "cover"
    /\ LET c == Join(album_path, <<"cover.jpg">>) IN
       /\ cover_path' = c
       /\ IF Exists(c)
          THEN /\ phase' = "pool"
               /\ UNCHANGED files
          ELSE \/ /\ CanOpen(c)
                  /\ files' = (c :> [ data |-> CoverData, tags |-> 0 ]) @@ files
                  /\ phase' = "pool"
               \* requests.get or open raises: nothing catches it in _album
               \/ /\ phase' = CoverError
                  /\ UNCHANGED files
    /\ UNCHANGED << artist, tagger, settings, catalog, server, album, album_path, discs, dirs, task,
                    run, attempts >>

\* ---------------------------------------------------------------- the server
NotFound == 404

\* the track's audio, chunk by chunk, and the body of an error response
Content(track) == [ i \in 1..TrackChunks |-> 10 * track.track_id + i ]
ErrBody == <<0>>

\* the final URLs a listen request is redirected to
URLs ==
    { <<"cdn/x", ".mp3">>,
      <<"cdn/x", ".m4a">>,
      <<"cdn/x", ".flac", "?", "token=x">>,
      <<"cdn/x", ".mp3", "?", "token=x">>,
      <<"cdn/x", ".flac", "?", "f=y", ".m4a">> }

\* a server that honours Range: bytes=offset-; a range that starts at or
\* past the end is not satisfiable, and the body of that answer is the
\* server's choice
RangeResponses(track, offset) ==
    IF offset < TrackChunks
    THEN { [ status |-> 206, body |-> SubSeq(Content(track), offset + 1, TrackChunks) ] }
    ELSE { [ status |-> 416, body |-> b ] : b \in { <<>>, ErrBody } }

\* a server that ignores Range
FullResponses(track) == { [ status |-> 200, body |-> Content(track) ] }

ErrorResponses == { [ status |-> st, body |-> ErrBody ] : st \in { NotFound, 500 } }

Responses(track, offset) ==
    IF server = "range"
    THEN RangeResponses(track, offset)
    ELSE RangeResponses(track, offset) \cup FullResponses(track) \cup ErrorResponses

\* ------------------------------------------------------- transfer resumer
\* _download, lines 129-132
FilePath(track) ==
    LET name == << Pad2(track.track_no), ". " >> \o Sanitize(track.track_title)
                    \o << ".temp" >>
    IN IF discs = "True"
       THEN Join(Join(album_path, << "Disc ", Str(track.disc_id) >>), name)
       ELSE Join(album_path, name)

\* _exist_check that looks for one extension only
ExistCheckMp3Only(file_path) == Exists(Replace(file_path, ".temp", << ".mp3" >>))

\* _exist_check
ExistCheck(file_path) ==
    \/ Exists(Replace(file_path, ".temp", << ".mp3" >>))
    \/ Exists(Replace(file_path, ".temp", << ".flac" >>))

\* _return_bytes that never resumes
ReturnBytesZero(file_path) == 0

\* _return_bytes
ReturnBytes(file_path) == IF Exists(file_path) THEN Size(file_path) ELSE 0

\* the format read off the whole URL, query included
ClassifyWholeUrl(url) ==
    IF EndsWith(url, ".mp3") THEN ".mp3"
    ELSE IF EndsWith(url, ".m4a") THEN ".m4a"
    ELSE ".flac"

\* _download, lines 148-153
Classify(url) ==
    IF EndsWith(SplitFirst(url, "?"), ".mp3") THEN ".mp3"
    ELSE IF EndsWith(SplitFirst(url, "?"), ".m4a") THEN ".m4a"
    ELSE ".flac"

\* a client that writes the answers of a successful request only
AcceptedSuccess(quality, status) == quality # ".m4a" /\ status \in { 200, 206 }

\* a client that writes whatever is not a 404, the .m4a too
AcceptedNot404(quality, status) == status # NotFound

\* _download, lines 154-155: the response is written
Accepted(quality, status) == quality # ".m4a" /\ status # NotFound

\* a rename that keeps the partial file's name
FinalPathSame(file_path, quality) == file_path

\* _download, line 162
FinalPath(file_path, quality) == Replace(file_path, ".temp", << quality >>)

\* f.write(chunk) on a file opened 'ab'
WriteChunk(data, chunk) == Append(data, chunk)

\* a pool with a worker for every track
MaxWorkersPerTrack == Len(catalog.tracks)

\* ThreadPoolExecutor(max_workers=int(self.settings['threads'])), line 68
MaxWorkers == settings.threads

\* a pool whose worker is lost with the task that failed on it
RunningOrFailed == { t \in Tracks : task[t].pc \notin { "idle", "done" } }

\* the tasks that hold a worker of the pool
Running == { t \in Tracks : task[t].pc \notin { "idle", "done", "failed" } }

\* _download returns (logger.catch keeps an exception from leaving it)
Ended(t, how) == [ task EXCEPT ![t] = [ IdleTask EXCEPT !.pc = how ] ]

\* a worker takes the next task of executor.map; _download, lines 126-135
Start(t) ==
    /\ phase = "pool"
    /\ task[t].pc = "idle"
    /\ \A j \in 1..(t - 1) : task[j].pc # "idle"
    /\ Cardinality(Running) < MaxWorkers
    /\ IF discs = "unset"
       THEN task' = Ended(t, "failed")
       ELSE LET fp == FilePath(album.tracks[t]) IN
            IF ExistCheck(fp)
            THEN task' = Ended(t, "done")
            ELSE task' = [ task EXCEPT ![t].file_path = fp, ![t].pc = "fetch" ]
    /\ UNCHANGED << artist, tagger, settings, catalog, server, album, album_path, discs, cover_path,
                    dirs, files, phase, run, attempts >>

\* _download, lines 137-147: the Range header and the request
Fetch(t) ==
    /\ phase = "pool"
    /\ task[t].pc = "fetch"
    /\ LET offset == ReturnBytes(task[t].file_path) IN
       \/ \E r \in Responses(album.tracks[t], offset), u \in URLs :
            task' = [ task EXCEPT ![t].range = offset, ![t].url = u,
                                  ![t].status = r.status, ![t].rem = r.body,
                                  ![t].pc = "respond" ]
       \* requests.get raises
       \/ task' = Ended(t, "failed")
    /\ UNCHANGED << artist, tagger, settings, catalog, server, album, album_path, discs, cover_path,
                    dirs, files, phase, run, attempts >>

\* _download, lines 148-157 and 165-166: the format, and whether to write;
\* r.url is not read again
Respond(t) ==
    /\ phase = "pool"
    /\ task[t].pc = "respond"
    /\ LET q == Classify(task[t].url) IN
       IF Accepted(q, task[t].status)
       THEN task' = [ task EXCEPT ![t].quality = q, ![t].url = <<>>, ![t].pc = "open" ]
       ELSE task' = Ended(t, "done")
    /\ UNCHANGED << artist, tagger, settings, catalog, server, album, album_path, discs, cover_path,
                    dirs, files, phase, run, attempts >>

\* _download, line 158: open(file_path, 'ab')
Open(t) ==
    /\ phase = "pool"
    /\ task[t].pc = "open"
    /\ LET fp == task[t].file_path IN
       \/ /\ CanOpen(fp)
          /\ task' = [ task EXCEPT ![t].fd = fp, ![t].pc = "write" ]
          /\ files' = IF fp \in DOMAIN files
                      THEN files
                      ELSE (fp :> [ data |-> <<>>, tags |-> 0 ]) @@ files
       \/ /\ task' = Ended(t, "failed")
          /\ UNCHANGED files
    /\ UNCHANGED << artist, tagger, settings, catalog, server, album, album_path, discs, cover_path,
                    dirs, phase, run, attempts >>

\* _download, lines 159-161: one chunk of the stream is appended to the
\* open file (a file replaced by a rename while open is no longer on disk)
Write(t) ==
    /\ phase = "pool"
    /\ task[t].pc = "write"
    /\ task[t].rem # <<>>
    /\ \/ /\ files' = IF task[t].fd \in DOMAIN files
                      THEN [ files EXCEPT ![task[t].fd].data =
                                 WriteChunk(@, Head(task[t].rem)) ]
                      ELSE files
          /\ task' = [ task EXCEPT ![t].rem = Tail(@) ]
       \* the stream breaks, or the write fails
       \/ /\ task' = Ended(t, "failed")
          /\ UNCHANGED files
    /\ UNCHANGED << artist, tagger, settings, catalog, server, album, album_path, discs, cover_path,
                    dirs, phase, run, attempts >>

\* os.rename(src, dst): dst is replaced; open handles follow their file
Renamed(src, dst) ==
    [ p \in (DOMAIN files \ {src}) \cup {dst} |-> IF p = dst THEN files[src] ELSE files[p] ]
Follow(fd, src, dst) ==
    IF fd = src THEN dst ELSE IF fd = dst THEN <<>> ELSE fd

\* _download, lines 162-163: the file is closed and renamed
Rename(t) ==
    /\ phase = "pool"
    /\ task[t].pc = "write"
    /\ task[t].rem = <<>>
    /\ LET fp == task[t].file_path
           cp == FinalPath(fp, task[t].quality)
       IN
       \/ /\ fp \in DOMAIN files
          /\ files' = Renamed(fp, cp)
          /\ task' = [ j \in Tracks |->
                         IF j = t
                         THEN [ task[t] EXCEPT !.fd = <<>>, !.c_path = cp, !.pc = "tag" ]
                         ELSE [ task[j] EXCEPT !.fd = Follow(@, fp, cp) ] ]
       \/ /\ task' = Ended(t, "failed")
          /\ UNCHANGED files
    /\ UNCHANGED << artist, tagger, settings, catalog, server, album, album_path, discs, cover_path,
                    dirs, phase, run, attempts >>

\* a tagger that removes the file it could not tag
TagFailedRollsBack(fs, c_path) == [ p \in DOMAIN fs \ {c_path} |-> fs[p] ]

\* the disk after _tag failed (lyrics request, lyrics line, cover, opening or
\* saving the container): logger.catch ends _tag, nothing was saved
TagFailed(fs, c_path) == fs

\* _download, line 164: _tag, which logger.catch keeps from raising
Tag(t) ==
    /\ phase = "pool"
    /\ task[t].pc = "tag"
    /\ \/ /\ task[t].c_path \in DOMAIN files
          /\ files' = [ files EXCEPT ![task[t].c_path].tags = @ + 1 ]
       \/ files' = TagFailed(files, task[t].c_path)
    /\ task' = Ended(t, "done")
    /\ UNCHANGED << artist, tagger, settings, catalog, server, album, album_path, discs, cover_path,
                    dirs, phase, run, attempts >>

\* an executor that is left without waiting for the tasks it started
PoolLeftRunning == \A t \in Tracks : task[t].pc # "idle"

\* leaving the with block waits for every task (shutdown(wait=True))
PoolDrained == \A t \in Tracks : task[t].pc \in { "done", "failed" }

\* _album, lines 68-69: the with block ends when every task has ended
AlbumReturn ==
    /\ phase = "pool"
    /\ PoolDrained
    /\ phase' = "returned"
    /\ UNCHANGED << artist, tagger, settings, catalog, server, album, album_path, discs, cover_path,
                    dirs, files, task, run, attempts >>

\* the process is stopped while the pool runs: the disk is what remains
Interrupt ==
    /\ phase = "pool"
    /\ phase' = "stopped"
    /\ task' = [ t \in Tracks |-> IdleTask ]
    /\ UNCHANGED << artist, tagger, settings, catalog, server, album, album_path, discs, cover_path,
                    dirs, files, run, attempts >>

\* Download("album", id) again, with the same settings, on the same disk
Rerun ==
    /\ phase \in { "returned", "raised", "stopped" }
    /\ run < MaxRuns
    /\ run' = run + 1
    /\ phase' = "album"
    /\ album' = NoAlbum
    /\ album_path' = <<>>
    /\ discs' = "unset"
    /\ cover_path' = <<>>
    /\ task' = [ t \in Tracks |-> IdleTask ]
    /\ attempts' = 0
    /\ UNCHANGED << artist, tagger, settings, catalog, server, dirs, files >>

Next ==
    \/ AlbumBegin
    \/ AlbumPathFirst
    \/ AlbumPathFallback
    \/ DiscDirs
    \/ DownloadCover
    \/ \E t \in Tracks : Start(t)
    \/ \E t \in Tracks : Fetch(t)
    \/ \E t \in Tracks : Respond(t)
    \/ \E t \in Tracks : Open(t)
    \/ \E t \in Tracks : Write(t)
    \/ \E t \in Tracks : Rename(t)
    \/ \E t \in Tracks : Tag(t)
    \/ AlbumReturn
    \/ Interrupt
    \/ Rerun

Spec == Init /\ [][Next]_vars


\* ----------------------------------------------------------- lyrics fetcher
\* Python's None, and the truth value of a string or None
None == "None"
Truthy(v) == v # None /\ v # ""

\* track['lyrics_tp']: no lyrics, timed lyrics, untimed lyrics only
LyricsFlags == { None, "T", "N" }

\* _get_lyrics, lines 288, 297 and 303: the endpoint that is requested
Endpoint(lyrics_tp, timed_lyrics) ==
    IF Truthy(lyrics_tp) /\ timed_lyrics THEN "T"
    ELSE IF ~Truthy(lyrics_tp) \/ ~timed_lyrics THEN "N"
    ELSE ""

\* str.split(sep): the pieces between the occurrences of sep
RECURSIVE SplitAll(_, _)
SplitAll(s, sep) ==
    LET first == SplitFirst(s, sep) IN
    IF Len(first) = Len(s) THEN << first >>
    ELSE << first >> \o SplitAll(SubSeq(s, Len(first) + 2, Len(s)), sep)

\* str.splitlines(): the empty string has no line, a final newline ends the
\* last line
SplitLines(s) ==
    IF s = <<>> THEN <<>>
    ELSE LET parts == SplitAll(s, "\n") IN
         IF parts[Len(parts)] = <<>> THEN SubSeq(parts, 1, Len(parts) - 1) ELSE parts

\* float(a), rounded to hundredths of a second, for the stamps of the model
Seconds == ("1.5" :> 150) @@ ("3.25" :> 325) @@ ("61" :> 6100)
IsFloat(a) == Len(a) = 1 /\ a[1] \in DOMAIN Seconds

\* f"{n:02d}" as strftime writes minutes, seconds and hundredths
TwoDigits(n) == Str(n \div 10) \o Str(n % 10)

\* datetime.fromtimestamp(x).strftime("%M:%S.%f")[0:-4] on a host whose
\* UTC offset has tz minutes beyond whole hours
Stamp(cs, tz) ==
    TwoDigits(((cs \div 6000) + tz) % 60) \o ":" \o TwoDigits((cs \div 100) % 60)
        \o "." \o TwoDigits(cs % 100)

\* the separator of the timed blob (U+FF03, full-width number sign)
LineSep == "#"

\* _get_lyrics, line 293: every line split at '|'
TimedLines(blob) ==
    LET lines == SplitLines(Replace(blob, LineSep, << "\n" >>)) IN
    [ i \in 1..Len(lines) |-> SplitAll(lines[i], "|") ]

\* 'for a, b in line_split' and float(a) raise on a line that is not
\* <number>|<text>
WellFormed(blob) ==
    \A i \in 1..Len(TimedLines(blob)) :
        Len(TimedLines(blob)[i]) = 2 /\ IsFloat(TimedLines(blob)[i][1])

RECURSIVE JoinLines(_)
JoinLines(ls) ==
    IF ls = <<>> THEN <<>>
    ELSE IF Len(ls) = 1 THEN ls[1]
    ELSE ls[1] \o << "\n" >> \o JoinLines(Tail(ls))

\* _get_lyrics, lines 292-295
FormatTimed(blob, tz) ==
    JoinLines([ i \in 1..Len(TimedLines(blob)) |->
        << "[" \o Stamp(Seconds[TimedLines(blob)[i][1][1]], tz) \o "]" >>
            \o TimedLines(blob)[i][2] ])

\* the 'lyrics' field the two endpoints answer with
TimedBlobs ==
    { <<>>,
      << "1.5", "|", "Hello", LineSep, "3.25", "|", "World" >>,
      << "61", "|", "Hello" >>,
      << "1.5", "|", "Hello", LineSep, "World" >>,
      << "x", "|", "Hello" >> }
UntimedBlobs == { <<>>, << "la la" >> }
Blobs(endpoint) == IF endpoint = "T" THEN TimedBlobs ELSE UntimedBlobs

\* the minutes beyond whole hours of the host's UTC offset
HostOffsets == { 0, 30 }


\* ------------------------------------------------------------- tag composer
\* track_to_flac: the canonical tag set of a track (empty values are left
\* out); more stands for further keys the vendor's fields give
TrackToFlac(track, a, lyrics, more) ==
    LET all == ("ALBUM" :> a.title) @@ ("ARTIST" :> a.artist_disp_nm)
                   @@ ("TITLE" :> track.track_title) @@ ("LYRICS" :> lyrics)
        kept == { k \in DOMAIN all : all[k] # <<>> }
    IN [ k \in kept \cup DOMAIN more |-> IF k \in kept THEN all[k] ELSE more[k] ]

\* _tag, lines 241-254: the frame of each canonical key
Legend ==
    ("ALBUM" :> "TALB") @@ ("ALBUMARTIST" :> "TPE2") @@ ("ARTIST" :> "TPE1")
        @@ ("COMPOSER" :> "TCOM") @@ ("COPYRIGHT" :> "TCOP") @@ ("DATE" :> "TDRC")
        @@ ("GENRE" :> "TCON") @@ ("ISRC" :> "TSRC") @@ ("LABEL" :> "TPUB")
        @@ ("PERFORMER" :> "TOPE") @@ ("TITLE" :> "TIT2") @@ ("LYRICS" :> "USLT")

\* a container's frames (fields, pictures) are a function from
\* << identifier, description >> to the value held
Put(m, k, v) == [ x \in DOMAIN m \cup {k} |-> IF x = k THEN v ELSE m[x] ]

\* a delall that deletes nothing
DelAllNothing(m, id) == m

\* m_file.delall(id), f_file.clear_pictures()
DelAll(m, id) == [ x \in { k \in DOMAIN m : k[1] # id } |-> m[x] ]

\* _tag, lines 261-266: a key the legend lacks raises KeyError and is skipped
ApplyLegend(m, tags) ==
    LET known == DOMAIN tags \cap DOMAIN Legend IN
    [ x \in DOMAIN m \cup { << Legend[k], "" >> : k \in known } |->
        IF \E k \in known : x = << Legend[k], "" >>
        THEN tags[CHOOSE k \in known : x = << Legend[k], "" >>]
        ELSE m[x] ]

\* _tag, lines 268-269
TrackFrame(track) == << Str(track.track_no), "/", Str(track.track_total) >>
DiscFrame(track, a) == << Str(track.disc_id), "/", Str(a.disc_total) >>

\* _tag, lines 261-274: the frames of the .mp3 before they are saved
ComposeID3(m, tags, track, a, cover) ==
    LET numbered == Put(Put(ApplyLegend(m, tags), << "TRCK", "" >>, TrackFrame(track)),
                        << "TPOS", "" >>, DiscFrame(track, a))
        cleared == DelAll(numbered, "APIC")
    IN IF cover_path # <<>> THEN Put(cleared, << "APIC", "" >>, cover) ELSE cleared

\* _tag, lines 236-237: every key is written as a field
ApplyFields(m, tags) ==
    [ x \in DOMAIN m \cup { << k, "" >> : k \in DOMAIN tags } |->
        IF x[2] = "" /\ x[1] \in DOMAIN tags THEN tags[x[1]] ELSE m[x] ]

\* _tag, lines 227-237: the blocks of the .flac before they are saved
ComposeFlac(m, tags, cover) ==
    LET cleared == DelAll(m, "PICTURE")
        pictured == IF cover_path # <<>>
                    THEN Put(cleared, << "PICTURE", "Front Cover" >>, cover)
                    ELSE cleared
    IN ApplyFields(pictured, tags)


\* ----------------------------------------------- one call of _tag, by steps
TagSettings ==
    [ path : {BasePath}, template : {DefaultTemplate}, threads : {1},
      timed_lyrics : BOOLEAN ]

\* what a downloaded file can hold before it is tagged
OldValue == << "old" >>
OldKeys(ext) ==
    IF ext = ".mp3"
    THEN { << "TIT2", "" >>, << "TRCK", "" >>, << "APIC", "old" >>, << "USLT", ":eng" >> }
    ELSE { << "TITLE", "" >>, << "PICTURE", "old" >> }
MoreTags == { <<>>, ("DISCNUMBER" :> << "1" >>) }

TagFile(data, header, keys) ==
    [ data |-> data, tags |-> 0, header |-> header, frames |-> [ k \in keys |-> OldValue ] ]

\* the variables a call of _tag leaves alone
setup == << settings, catalog, server, album, album_path, discs, cover_path, dirs,
            phase, run, attempts, artist >>

\* track t was renamed to its final extension and _tag is called (line 164);
\* the tracks before it are done, the album is set up
TagInit ==
    /\ settings \in TagSettings
    /\ catalog \in Catalogs
    /\ server = "range"
    /\ Plain(catalog, settings, server)
    /\ \A n \in Tracks : catalog.tracks[n].track_title = << "a" >>
    /\ album = AlbumInfo(catalog)
    /\ album_path = settings.path \o Template(album)
    /\ discs = IF album.disc_total > 1 THEN "True" ELSE "False"
    /\ cover_path = Join(album_path, << "cover.jpg" >>)
    /\ dirs = {album_path} \cup (IF album.disc_total > 1
                                 THEN { DiscDir(i) : i \in 1..album.disc_total }
                                 ELSE {})
    /\ phase = "pool"
    /\ run = 1
    /\ attempts = 1
    /\ artist = NoArtist
    /\ \E t \in Tracks, ext \in { ".mp3", ".flac" }, header \in BOOLEAN :
       \E keys \in (IF header THEN SUBSET OldKeys(ext) ELSE {{}}) :
       LET fp == FilePath(album.tracks[t])
           cp == FinalPath(fp, ext)
       IN
       /\ task = [ j \in Tracks |->
                     IF j < t THEN [ IdleTask EXCEPT !.pc = "done" ]
                     ELSE IF j = t
                     THEN [ IdleTask EXCEPT !.pc = "tag", !.file_path = fp, !.range = 0,
                                            !.status = 206, !.quality = ext, !.c_path = cp ]
                     ELSE IdleTask ]
       /\ files = (cp :> TagFile(Content(album.tracks[t]), header, keys))
                      @@ (cover_path :> TagFile(CoverData, FALSE, {}))
       /\ \E flag \in LyricsFlags, tz \in HostOffsets, more \in MoreTags :
            tagger = [ pc |-> "lyrics", track |-> t, file_path |-> cp, lyrics_tp |-> flag,
                       tz |-> tz, more |-> more, endpoint |-> "", body |-> <<>>,
                       lyrics |-> <<>>, tags |-> <<>>, m_file |-> <<>>, at |-> "" ]

TagFails(step) == tagger' = [ tagger EXCEPT !.pc = "failed", !.at = step ]

\* _get_lyrics, lines 288-305
GetLyrics ==
    /\ tagger.pc = "lyrics"
    /\ LET e == Endpoint(tagger.lyrics_tp, settings.timed_lyrics) IN
       \/ \E blob \in Blobs(e) :
            IF e = "T"
            THEN IF WellFormed(blob)
                 THEN tagger' = [ tagger EXCEPT !.endpoint = e, !.body = blob,
                                      !.lyrics = FormatTimed(blob, tagger.tz), !.pc = "tags" ]
                 \* a line that is not <number>|<text> raises ValueError
                 ELSE tagger' = [ tagger EXCEPT !.endpoint = e, !.body = blob,
                                      !.pc = "failed", !.at = "line" ]
            ELSE tagger' = [ tagger EXCEPT !.endpoint = e, !.body = blob,
                                 !.lyrics = IF tagger.lyrics_tp = None THEN <<>> ELSE blob,
                                 !.pc = "tags" ]
       \* the request raises, or the answer has no 'lyrics'
       \/ tagger' = [ tagger EXCEPT !.endpoint = e, !.pc = "failed", !.at = "lyrics" ]
    /\ UNCHANGED << setup, files, task >>

\* _tag, line 223
BuildTags ==
    /\ tagger.pc = "tags"
    /\ tagger' = [ tagger EXCEPT
                       !.tags = TrackToFlac(album.tracks[tagger.track], album,
                                            tagger.lyrics, tagger.more),
                       !.pc = "open" ]
    /\ UNCHANGED << setup, files, task >>

\* _tag, lines 225 and 255-258: FLAC() raises on a file without a FLAC
\* header, ID3() without an ID3 header starts an empty tag
OpenContainer ==
    /\ tagger.pc = "open"
    /\ LET f == files[tagger.file_path] IN
       \/ /\ EndsWith(tagger.file_path, ".mp3") \/ f.header
          /\ tagger' = [ tagger EXCEPT !.m_file = IF f.header THEN f.frames ELSE <<>>,
                                       !.pc = "compose" ]
       \/ /\ EndsWith(tagger.file_path, ".flac")
          /\ TagFails("open")
    /\ UNCHANGED << setup, files, task >>

\* _tag, lines 227-237 and 260-274
Compose ==
    /\ tagger.pc = "compose"
    /\ LET track == album.tracks[tagger.track]
           cover == files[cover_path].data
       IN
       \/ tagger' = [ tagger EXCEPT
                          !.m_file = IF EndsWith(tagger.file_path, ".mp3")
                                     THEN ComposeID3(@, tagger.tags, track, album, cover)
                                     ELSE ComposeFlac(@, tagger.tags, cover),
                          !.pc = "save" ]
       \* the cover cannot be read
       \/ TagFails("cover")
    /\ UNCHANGED << setup, files, task >>

\* _tag, lines 238 and 275
Save ==
    /\ tagger.pc = "save"
    /\ \/ /\ files' = [ files EXCEPT ![tagger.file_path] =
                          [ @ EXCEPT !.tags = @ + 1, !.header = TRUE,
                                     !.frames = tagger.m_file ] ]
          /\ tagger' = [ tagger EXCEPT !.pc = "saved" ]
       \/ /\ files' = TagFailed(files, tagger.file_path)
          /\ TagFails("save")
    /\ UNCHANGED << setup, task >>

\* logger.catch ends _tag, _download returns (line 164)
TagReturn ==
    /\ tagger.pc \in { "saved", "failed" }
    /\ tagger' = [ tagger EXCEPT !.pc = "returned" ]
    /\ task' = Ended(tagger.track, "done")
    /\ UNCHANGED << setup, files >>

TagNext ==
    \/ GetLyrics
    \/ BuildTags
    \/ OpenContainer
    \/ Compose
    \/ Save
    \/ TagReturn

TagSpec == TagInit /\ [][TagNext]_vars


\* ------------------------------------------------------------- artist mode
\* int(album['artist_id']) for the ids of the model
IntOf == ("3" :> 3) @@ ("4" :> 4)

\* contribution_check: the album is by another artist than the one asked for
ContributionCheck(id, artist_id) == id # artist_id

\* artist['list'][1]['artist_album']['list']: a one-track album, then any
\* album of the artist or of another artist to which the artist contributed
ArtistEntries(n) ==
    { [ album_id |-> n, artist_id |-> aid,
        album |-> [ artist_disp_nm |-> ShortArtist, title |-> ti, title_local |-> ti,
                    album_id |-> << Str(n) >>, artist_id |-> << aid >>,
                    album_tp |-> << "EP" >>, tracks |-> tr ] ]
      : aid \in DOMAIN IntOf, ti \in AlbumTitles,
        tr \in { x \in TrackLists :
                   /\ \A k \in 1..Len(x) : x[k].track_title = << "a" >>
                   /\ n = 1 => Len(x) = 1 } }

ArtistSettings ==
    [ path : {BasePath}, template : {DefaultTemplate}, threads : 1..MaxThreads,
      contributions : BOOLEAN ]

\* Download("artist", id), lines 22-27 and 41-42
ArtistInit ==
    /\ settings \in ArtistSettings
    /\ server = "range"
    /\ \E first \in ArtistEntries(1), second \in ArtistEntries(2) :
         /\ first.album.title = ShortTitle
         /\ artist = [ id |-> 3, list |-> << first, second >>, i |-> 0 ]
         /\ catalog = first.album
    /\ album = NoAlbum
    /\ album_path = <<>>
    /\ discs = "unset"
    /\ cover_path = <<>>
    /\ dirs = {}
    /\ files = <<>>
    /\ phase = "artist"
    /\ task = [ t \in Tracks |-> IdleTask ]
    /\ run = 1
    /\ attempts = 0
    /\ tagger = NoTagger

\* _artist, lines 43-51: the next album of the list is skipped or handed to
\* _album; self.album, self.album_path, self.discs and self.cover_path keep
\* what the album before left in them
ArtistAlbum ==
    /\ phase \in { "artist", "returned" }
    /\ artist.i < Len(artist.list)
    /\ artist' = [ artist EXCEPT !.i = @ + 1 ]
    /\ LET e == artist.list[artist.i + 1] IN
       IF ContributionCheck(artist.id, IntOf[e.artist_id]) /\ ~settings.contributions
       THEN UNCHANGED << catalog, phase, task, attempts >>
       ELSE /\ catalog' = e.album
            /\ phase' = "album"
            /\ task' = [ t \in 1..Len(e.album.tracks) |-> IdleTask ]
            /\ attempts' = 0
    /\ UNCHANGED << tagger, settings, server, album, album_path, discs, cover_path,
                    dirs, files, run >>

ArtistNext ==
    \/ ArtistAlbum
    \/ AlbumBegin
    \/ AlbumPathFirst
    \/ AlbumPathFallback
    \/ DiscDirs
    \/ DownloadCover
    \/ \E t \in Tracks : Start(t)
    \/ \E t \in Tracks : Fetch(t)
    \/ \E t \in Tracks : Respond(t)
    \/ \E t \in Tracks : Open(t)
    \/ \E t \in Tracks : Write(t)
    \/ \E t \in Tracks : Rename(t)
    \/ \E t \in Tracks : Tag(t)
    \/ AlbumReturn

ArtistSpec == ArtistInit /\ [][ArtistNext]_vars


\* ================================================================== claims
FinalExts == { ".mp3", ".flac" }

\* the path of track t's partial file, its base name, and what is on disk
\* at that base name
TrackPath(t) == FilePath(album.tracks[t])
Base(t) == SubSeq(TrackPath(t), 1, Len(TrackPath(t)) - 1)
Partial(t) == Append(Base(t), ".temp")
Final(t, ext) == Append(Base(t), ext)
Planned == album_path # <<>> /\ discs # "unset"
HasFinal(t) == Planned /\ \E ext \in FinalExts : Final(t, ext) \in DOMAIN files
HasPartial(t) == Planned /\ Partial(t) \in DOMAIN files

\* no other track of the album has the same target path
Sole(t) == \A j \in Tracks \ {t} : TrackPath(j) # TrackPath(t)

\* ---------------------------------------------------------------------- C1
\* C1: a task that starts while a finalized .mp3 or .flac file exists at its
\* track's base name ends at once: it sends no request and leaves the disk
\* as it is; and while every track has its finalized file and no task is
\* past its start, no step of the run changes a file or begins a transfer.
C1_TaskStep ==
    \A t \in Tracks :
        (HasFinal(t) /\ task[t].pc = "idle" /\ task'[t].pc # "idle")
            => /\ task'[t].pc = "done"
               /\ task'[t].range = -1
               /\ files' = files
               /\ dirs' = dirs
C1_Terminal ==
    \A t \in Tracks : task[t].pc = "done" => task'[t].pc \in { "done", "idle" }
C1_RunStep ==
    (phase = "pool" /\ \A t \in Tracks : HasFinal(t) /\ task[t].pc \in { "idle", "done" })
        => /\ files' = files
           /\ \A t \in Tracks : task'[t].pc \in { "idle", "done" }
\* C1: a track that already has a finalized .mp3 or .flac is skipped with
\* the disk unchanged, a skipped track stays skipped, and a run over an
\* album whose tracks are all finalized changes no file.
C1_Idempotent == [][C1_TaskStep /\ C1_Terminal /\ C1_RunStep]_vars

\* a second run in which the first track was skipped and the second, also
\* finalized and tagged by the first run, is about to be
C1_Witness ==
    /\ run = 2
    /\ phase = "pool"
    /\ Len(catalog.tracks) = 2
    /\ task[1].pc = "done"
    /\ task[2].pc = "idle"
    /\ HasFinal(1)
    /\ Final(2, ".flac") \in DOMAIN files
    /\ files[Final(2, ".flac")].tags = 1
    /\ files[Final(2, ".flac")].data = Content(album.tracks[2])

\* ---------------------------------------------------------------------- C2
\* C2: the request of a task asks for bytes=K-, K the size of the partial
\* file at that moment (0 when there is none); every chunk received is
\* appended after what the file holds; and when the server answered the
\* range request for K < N (206) and no other task shares the path, the
\* file the task finalizes has size N.
C2_Request ==
    \A t \in Tracks :
        (task[t].pc = "fetch" /\ task'[t].pc = "respond")
            => task'[t].range =
                   (IF task[t].file_path \in DOMAIN files
                    THEN Len(files[task[t].file_path].data) ELSE 0)
C2_Append ==
    \A t \in Tracks :
        (task[t].pc = "write" /\ task'[t].pc = "write" /\ task'[t].rem # task[t].rem
            /\ task[t].fd \in DOMAIN files)
            => files'[task[t].fd].data = files[task[t].fd].data \o << Head(task[t].rem) >>
C2_Final ==
    \A t \in Tracks :
        (task[t].pc = "write" /\ task'[t].pc = "tag" /\ task[t].status = 206 /\ Sole(t))
            => /\ task[t].range < TrackChunks
               /\ \E ext \in FinalExts :
                    /\ Final(t, ext) \in DOMAIN files'
                    /\ Len(files'[Final(t, ext)].data) = TrackChunks
               /\ Partial(t) \notin DOMAIN files'
IsPrefix(a, b) == Len(a) <= Len(b) /\ a = SubSeq(b, 1, Len(a))

\* C3: against a server that honours Range, whatever runs were interrupted
\* before, the partial file of a track is a prefix of the track's content
\* and a finalized file holds exactly the track's content.
C3_InterruptResume ==
    \A t \in Tracks :
        (server = "range" /\ Planned /\ Sole(t))
            => /\ HasPartial(t)
                    => IsPrefix(files[Partial(t)].data, Content(album.tracks[t]))
               /\ \A ext \in FinalExts :
                    Final(t, ext) \in DOMAIN files
                        => files[Final(t, ext)].data = Content(album.tracks[t])

\* ---------------------------------------------------------------------- C4
\* C4: at every track's base name at most one of the partial file, the
\* finalized .mp3 and the finalized .flac exists.
C4_TransferState ==
    \A t \in Tracks :
        Planned =>
            Cardinality({ ext \in { ".temp", ".mp3", ".flac" } :
                            Append(Base(t), ext) \in DOMAIN files }) <= 1

\* the same for the tracks that share their path with no other track
C4_SoleTransferState ==
    \A t \in Tracks :
        (Planned /\ Sole(t)) =>
            Cardinality({ ext \in { ".temp", ".mp3", ".flac" } :
                            Append(Base(t), ext) \in DOMAIN files }) <= 1

\* ---------------------------------------------------------------------- C5
InProgress(t) == task[t].pc \in { "fetch", "respond", "open", "write", "tag" }

DistinctTracks ==
    \A i, j \in Tracks :
        i # j =>
            << catalog.tracks[i].disc_id, catalog.tracks[i].track_no,
               Sanitize(catalog.tracks[i].track_title) >>
            # << catalog.tracks[j].disc_id, catalog.tracks[j].track_no,
                 Sanitize(catalog.tracks[j].track_title) >>

\* C5: in an album whose tracks differ pairwise in (disc number, track
\* number, sanitized title), two tasks in progress never have the same
\* target path.
C5_NoSharedPath ==
    DistinctTracks =>
        \A i, j \in Tracks :
            (i # j /\ InProgress(i) /\ InProgress(j))
                => task[i].file_path # task[j].file_path

\* ---------------------------------------------------------------------- C6
Step(t) == Fetch(t) \/ Respond(t) \/ Open(t) \/ Write(t) \/ Rename(t) \/ Tag(t)
NextIdle(t) == task[t].pc = "idle" /\ \A j \in 1..(t - 1) : task[j].pc # "idle"
Failures == { t \in Tracks : task[t].pc = "failed" }

\* C6: whichever tasks have failed, every task in progress can take its
\* next step, the next track is started as soon as a worker is free, and
\* the album download returns once every task has ended; a task that fails
\* changes no other task, and the pool never ends by raising.
C6_Progress ==
    phase = "pool" =>
        /\ \A t \in Tracks : InProgress(t) => ENABLED Step(t)
        /\ \A t \in Tracks :
             (NextIdle(t) /\ Cardinality({ j \in Tracks : InProgress(j) }) < settings.threads)
                 => ENABLED Start(t)
        /\ (\A t \in Tracks : task[t].pc \in { "done", "failed" }) => ENABLED AlbumReturn
C6_Isolated ==
    \A t \in Tracks :
        (task[t].pc # "failed" /\ task'[t].pc = "failed")
            => /\ \A j \in Tracks \ {t} : task'[j] = task[j]
               /\ phase' = "pool"
C6_NoRaise == phase = "pool" => phase' \in { "pool", "returned", "stopped" }
\* C6: a task's failure changes no other task and does not end the pool;
\* the other tasks stay able to proceed and the pool never raises.
C6_Containment == [](C6_Progress) /\ [][C6_Isolated /\ C6_NoRaise]_vars

\* the album download returned although the first track's task failed; the
\* second track was downloaded whole
C6_Witness ==
    /\ phase = "returned"
    /\ Len(catalog.tracks) = 2
    /\ task[1].pc = "failed"
    /\ task[2].pc = "done"
    /\ ~HasFinal(1)
    /\ Sole(2)
    /\ \E ext \in FinalExts :
         /\ Final(2, ext) \in DOMAIN files
         /\ files[Final(2, ext)].data = Content(album.tracks[2])

\* ---------------------------------------------------------------------- C7
AfterSetup == phase \in { "discs", "cover", "pool", "raised", "returned", "stopped" }
FellBackOnArtist ==
    /\ AfterSetup
    /\ album.artist_disp_nm = VariousArtists
    /\ catalog.artist_disp_nm # VariousArtists

\* C7: after the fallback replaced a longer artist name by "Various
\* Artists", the path the retry created is the template rendered with that
\* artist, and it exists when it is within the path limit.
C7_PathFallback ==
    FellBackOnArtist =>
        /\ album_path = settings.path \o Template(album)
        /\ ~TooLong(settings.path \o Template(album)) => album_path \in dirs

\* ---------------------------------------------------------------------- C8
\* C8: os.makedirs is called for the album directory at most twice, the
\* second time only after the first rendered path overflowed; while the
\* album directory is missing after setup no task has started, the pool is
\* never reached, and the album download ends by raising.
C8_Attempts ==
    /\ attempts <= 2
    /\ attempts = 2 => TooLong(settings.path \o Template(catalog))
C8_NoPool ==
    /\ phase \in { "pool", "returned", "stopped" } => album_path \in dirs
    /\ (phase \in { "cover", "raised" } /\ album_path \notin dirs)
           => \A t \in Tracks : task[t].pc = "idle"
C8_Raises == (phase = "cover" /\ album_path \notin dirs) => phase' = "raised"
\* C8: the album directory is created in at most two attempts; when it was
\* not created no track task ever starts and the album run raises.
C8_SetupFatal == [](C8_Attempts /\ C8_NoPool) /\ [][C8_Raises]_vars

\* the retry of the fallback failed too, and the album download raised
\* with no task started
C8_Witness ==
    /\ phase = "raised"
    /\ attempts = 2
    /\ album_path \notin dirs
    /\ \A t \in Tracks : task[t].pc = "idle"

\* ---------------------------------------------------------------------- C9
MaxDiscIndex ==
    CHOOSE m \in 1..MaxDisc :
        /\ \E n \in Tracks : catalog.tracks[n].disc_id = m
        /\ \A n \in Tracks : catalog.tracks[n].disc_id <= m

\* C9: the disc total is the largest disc index of the track list; when the
\* pool runs, either it is > 1, "Disc 1".."Disc <total>" exist and every
\* track's path lies in the directory of its disc, or no disc directory
\* exists and every track's path lies in the album directory.
C9_DiscTotal ==
    /\ phase # "album" => album.disc_total = MaxDiscIndex
    /\ phase = "pool" =>
         IF MaxDiscIndex > 1
         THEN /\ \A i \in 1..MaxDiscIndex : DiscDir(i) \in dirs
              /\ \A t \in Tracks :
                   DirName(TrackPath(t)) = DiscDir(catalog.tracks[t].disc_id)
         ELSE /\ \A i \in 1..MaxDisc : DiscDir(i) \notin dirs
              /\ \A t \in Tracks : DirName(TrackPath(t)) = album_path

\* --------------------------------------------------------------------- C10
\* the token before the first "?" of a URL ("" when there is none)
FirstQuery(url) ==
    IF \E i \in 1..Len(url) : url[i] = "?"
    THEN CHOOSE i \in 1..Len(url) : url[i] = "?" /\ \A j \in 1..(i - 1) : url[j] # "?"
    ELSE Len(url) + 1
PathSuffix(url) == IF FirstQuery(url) > 1 THEN url[FirstQuery(url) - 1] ELSE ""
Delivered(url) ==
    CASE PathSuffix(url) = ".mp3" -> "mp3"
      [] PathSuffix(url) = ".m4a" -> "m4a"
      [] OTHER -> "flac"

\* C10: the format of a response is read off the part of its final URL
\* before the first "?": .mp3 is mp3, .m4a is m4a and is not written, and
\* anything else is flac; the file a task finalizes carries the extension
\* of that format, and no file on disk ends in .m4a.
C10_Respond ==
    \A t \in Tracks :
        (task[t].pc = "respond" /\ task'[t].pc \in { "open", "done" })
            => /\ Delivered(task[t].url) = "m4a" => task'[t].pc = "done"
               /\ task'[t].pc = "open"
                    => task'[t].quality = "." \o Delivered(task[t].url)
C10_Rename ==
    \A t \in Tracks :
        (task[t].pc = "write" /\ task'[t].pc = "tag")
            => /\ task[t].quality \in FinalExts
               /\ task'[t].c_path = Final(t, task[t].quality)
               /\ task'[t].c_path \in DOMAIN files'
C10_NoM4a == \A p \in DOMAIN files : p[Len(p)] # ".m4a"
\* C10: the format is the suffix of the URL before its first '?'; .mp3 and
\* .flac are finalized under that extension, .m4a is never written.
C10_Format == [](C10_NoM4a) /\ [][C10_Respond /\ C10_Rename]_vars

\* a response whose URL carries a query was classified flac and its file
\* finalized as .flac
C10_Witness ==
    \E t \in Tracks :
        /\ task[t].pc = "tag"
        /\ task[t].quality = ".flac"
        /\ task[t].c_path = Final(t, ".flac")
        /\ task[t].c_path \in DOMAIN files

\* --------------------------------------------------------------------- C11
\* the response task t holds is one the code rejects
Rejected(t) ==
    /\ task[t].pc = "respond"
    /\ Classify(task[t].url) = ".m4a" \/ task[t].status = NotFound

C11_Stops ==
    \A t \in Tracks :
        (Rejected(t) /\ task'[t] # task[t] /\ phase' = "pool")
            => /\ files' = files
               /\ dirs' = dirs
               /\ task'[t].pc = "done"
C11_NoWriter ==
    \A t \in Tracks :
        task[t].pc \in { "open", "write", "tag" }
            => task[t].quality \in FinalExts /\ task[t].status # NotFound

\* C11: a task whose response is classified .m4a or has status 404 ends
\* with the disk as it was (no partial file created, appended to or
\* renamed, no finalized file, no tags written), and no task past the
\* decision holds such a response.
C11_RejectedUntouched == [](C11_NoWriter) /\ [][C11_Stops]_vars

\* a resumed track was rejected: its task is over, its partial file is
\* still there and nothing was finalized
C11_Witness ==
    /\ phase = "pool"
    /\ run = 2
    /\ \E t \in Tracks :
        /\ task[t].pc = "done"
        /\ HasPartial(t)
        /\ ~HasFinal(t)
        /\ Len(files[Partial(t)].data) = 1

\* --------------------------------------------------------------------- C12
\* a step of _tag: whatever it does, every file stays where it is with
\* the audio it holds, the task ends as a completed one and no other task
\* is touched
C12_TagStep ==
    \A t \in Tracks :
        (task[t].pc = "tag" /\ task'[t] # task[t] /\ phase' = "pool")
            => /\ DOMAIN files' = DOMAIN files
               /\ \A p \in DOMAIN files : files'[p].data = files[p].data
               /\ task'[t].pc = "done"
               /\ \A j \in Tracks \ {t} : task'[j] = task[j]
C12_Continues ==
    phase = "pool"
        => /\ \A t \in Tracks : task[t].pc = "tag" => ENABLED Tag(t)
           /\ (\A t \in Tracks : task[t].pc \in { "done", "failed" }) => ENABLED AlbumReturn
           /\ \A t \in Tracks :
                (NextIdle(t) /\ \A j \in Tracks : ~InProgress(j)) => ENABLED Start(t)

\* C12: when tagging fails the audio file stays under its final extension,
\* the failure does not leave the track's task (it ends as completed), and
\* the pool goes on with the other tracks and returns.
C12_TagTolerance == [](C12_Continues) /\ [][C12_TagStep]_vars

\* the album run returned; the first track's tagging failed (its finalized
\* file carries no tags) and a later track was downloaded and tagged
C12_Witness ==
    /\ phase = "returned"
    /\ run = 1
    /\ \E t, j \in Tracks :
        /\ t < j
        /\ Sole(t)
        /\ \E ext \in FinalExts :
            Final(t, ext) \in DOMAIN files /\ files[Final(t, ext)].tags = 0
        /\ \E ext \in FinalExts :
            Final(j, ext) \in DOMAIN files /\ files[Final(j, ext)].tags = 1

\* --------------------------------------------------------------------- C13
\* C13: once _get_lyrics has made its request, the endpoint is the timed one
\* exactly when the preference is timed and the track's flag is "timed",
\* and the untimed one otherwise; the untimed result is the empty string
\* for a null flag and the fetched body for any other.
C13_LyricsEndpoint ==
    tagger.endpoint # ""
        => /\ tagger.endpoint = "T" <=> (settings.timed_lyrics /\ tagger.lyrics_tp = "T")
           /\ tagger.endpoint # "T" => tagger.endpoint = "N"
           /\ (tagger.endpoint = "N" /\ tagger.at # "lyrics")
                  => tagger.lyrics = IF tagger.lyrics_tp = None THEN <<>> ELSE tagger.body

\* the same with the flag read as the code reads it, by its truth value
C13_ByTruthValue ==
    tagger.endpoint # ""
        => /\ tagger.endpoint = "T" <=> (settings.timed_lyrics /\ tagger.lyrics_tp # None)
           /\ tagger.endpoint # "T" => tagger.endpoint = "N"
           /\ (tagger.endpoint = "N" /\ tagger.at # "lyrics")
                  => tagger.lyrics = IF tagger.lyrics_tp = None THEN <<>> ELSE tagger.body

\* --------------------------------------------------------------------- C14
\* the frames an .mp3 held and holds when its tags are saved
C14_Saving == tagger.pc = "save" /\ tagger'.pc = "saved" /\ EndsWith(tagger.file_path, ".mp3")
C14_Old == IF files[tagger.file_path].header THEN files[tagger.file_path].frames ELSE <<>>
C14_New == files'[tagger.file_path].frames
C14_Known == DOMAIN tagger.tags \cap DOMAIN Legend

C14_Values ==
    \A k \in C14_Known :
        /\ << Legend[k], "" >> \in DOMAIN C14_New
        /\ C14_New[<< Legend[k], "" >>] = tagger.tags[k]
C14_NoOther ==
    /\ DOMAIN C14_New \subseteq
           DOMAIN C14_Old \cup { << Legend[k], "" >> : k \in C14_Known }
               \cup { << "TRCK", "" >>, << "TPOS", "" >>, << "APIC", "" >> }
    /\ \A k \in DOMAIN tagger.tags \ DOMAIN Legend :
           \A x \in DOMAIN C14_New : x[1] # k
C14_Numbers ==
    LET track == album.tracks[tagger.track] IN
    /\ C14_New[<< "TRCK", "" >>] = << Str(track.track_no), "/", Str(track.track_total) >>
    /\ C14_New[<< "TPOS", "" >>] = << Str(track.disc_id), "/", Str(album.disc_total) >>
C14_Picture ==
    /\ { x \in DOMAIN C14_New : x[1] = "APIC" } = { << "APIC", "" >> }
    /\ C14_New[<< "APIC", "" >>] = files[cover_path].data

\* C14: when the tags of an .mp3 are saved, whatever frames the file held,
\* every key of the tag set that the legend knows has its frame with the
\* tag set's value, a key the legend lacks has no frame, TRCK is
\* "<track_no>/<track_total>", TPOS is "<disc_id>/<disc_total>", and the
\* cover is the one attached picture.
C14_ID3Frames ==
    [][C14_Saving => (C14_Values /\ C14_NoOther /\ C14_Numbers /\ C14_Picture)]_vars

\* an .mp3 of a two-disc album was tagged: it held a title, a track number,
\* a picture and lyrics of its own and the tag set had a key the legend
\* lacks; the old lyrics frame is still there beside the new frames
C14_Witness ==
    /\ tagger.pc = "saved"
    /\ EndsWith(tagger.file_path, ".mp3")
    /\ album.disc_total = 2
    /\ "DISCNUMBER" \in DOMAIN tagger.tags
    /\ "LYRICS" \in DOMAIN tagger.tags
    /\ LET f == files[tagger.file_path].frames IN
       /\ << "USLT", ":eng" >> \in DOMAIN f
       /\ f[<< "TIT2", "" >>] = << "a" >>
       /\ f[<< "USLT", "" >>] = tagger.lyrics
       /\ f[<< "TPOS", "" >>] = << "1", "/", "2" >>
       /\ Cardinality(DOMAIN f) = 8

\* --------------------------------------------------------------------- C15
C15_Bounded ==
    Cardinality({ t \in Tracks : InProgress(t) }) <= settings.threads
C15_InOrder ==
    \A t \in Tracks : task[t].pc # "idle" => \A j \in 1..(t - 1) : task[j].pc # "idle"
C15_OnePerTrack ==
    /\ DOMAIN task = 1..Len(catalog.tracks)
    /\ phase = "returned" => \A t \in Tracks : task[t].pc \in { "done", "failed" }
\* within one album download a task starts from idle only and, once ended,
\* is not run again
C15_Once ==
    (phase = "pool" /\ phase' \in { "pool", "returned" })
        => \A t \in Tracks :
            /\ task[t].pc \in { "done", "failed" } => task'[t] = task[t]
            /\ task[t].pc # "idle" => task'[t].pc # "idle"

\* C15: at most settings['threads'] track tasks are in progress at any
\* time, every track of the album's list gets exactly one task, and the
\* tasks are started in the order of the list.
C15_BoundedPool == [](C15_Bounded /\ C15_InOrder /\ C15_OnePerTrack) /\ [][C15_Once]_vars

\* more tracks than workers: every worker is busy and a track waits
C15_Witness ==
    /\ phase = "pool"
    /\ settings.threads < Len(catalog.tracks)
    /\ Cardinality({ t \in Tracks : InProgress(t) }) = settings.threads
    /\ \E t \in Tracks : task[t].pc = "idle"

\* --------------------------------------------------------------------- C16
\* the per-download state the albums of an artist share
Shared == << album, album_path, cover_path, discs >>

C16_Returns ==
    phase = "returned" => \A t \in DOMAIN task : task[t].pc \in { "done", "failed" }
\* a step that overwrites the shared state, or takes the next album, finds
\* no task in progress
C16_Overwrite ==
    (Shared' # Shared \/ artist' # artist \/ catalog' # catalog)
        => \A t \in DOMAIN task : ~InProgress(t)

\* C16: _album returns only when each of its track tasks has completed or
\* failed, so in artist mode no task of an earlier album is in progress
\* when the current album, the album path, the cover path or the disc flag
\* is overwritten for the next album.
C16_PoolScoped == [](C16_Returns) /\ [][C16_Overwrite]_vars

\* the second album of the artist is being downloaded (its path was
\* planned, a task is in progress) after the first was downloaded whole
C16_Witness ==
    /\ artist.i = 2
    /\ phase = "pool"
    /\ album.title = LongTitle
    /\ \E t \in Tracks : InProgress(t)
    /\ \E p \in DOMAIN files : EndsWith(p, ".flac") /\ Len(files[p].data) = TrackChunks

\* --------------------------------------------------------------------- C17
Started == \E t \in Tracks : task[t].pc # "idle"
CoverFile == Join(album_path, << "cover.jpg" >>)
CoverWritten ==
    /\ CoverFile \in DOMAIN files'
    /\ CoverFile \notin DOMAIN files \/ files'[CoverFile] # files[CoverFile]

\* directories are made and the cover is written by the steps of
\* _album_path and _download_cover only, before any task has started, and
\* the cover only where there was none; steps of the pool do neither
C17_ByOrchestrator ==
    /\ dirs' # dirs => (phase \in { "path", "fallback", "discs" } /\ ~Started)
    /\ CoverWritten => (phase = "cover" /\ ~Started /\ CoverFile \notin DOMAIN files)
C17_AlbumReady ==
    (phase = "pool" /\ Started) => (album_path \in dirs /\ cover_path \in DOMAIN files)
C17_DiscsReady ==
    (phase = "pool" /\ Started /\ album.disc_total > 1)
        => \A i \in 1..album.disc_total : DiscDir(i) \in dirs

\* C17: when the first task starts the album directory, every disc
\* directory and cover.jpg are there; directories are made and cover.jpg is
\* written before the pool only, the cover at most once per album download
\* and not when it exists, never by a step of a task.
C17_SetupFirst == [](C17_AlbumReady /\ C17_DiscsReady) /\ [][C17_ByOrchestrator]_vars

\* the same without the disc directories
C17_SetupOrder == [](C17_AlbumReady) /\ [][C17_ByOrchestrator]_vars

\* --------------------------------------------------------------------- C18
\* the positions a task moves between: resume check, request, decision,
\* open, write, rename, tag
Order ==
    { << "idle", "fetch" >>, << "idle", "done" >>, << "idle", "failed" >>,
      << "fetch", "respond" >>, << "fetch", "failed" >>,
      << "respond", "open" >>, << "respond", "done" >>,
      << "open", "write" >>, << "open", "failed" >>,
      << "write", "write" >>, << "write", "tag" >>, << "write", "failed" >>,
      << "tag", "done" >> }

C18_Sequential ==
    \A t \in Tracks :
        (task'[t].pc # task[t].pc /\ phase' = "pool") => << task[t].pc, task'[t].pc >> \in Order
\* the request carries the size the partial file has when it is issued
C18_OffsetFirst ==
    \A t \in Tracks :
        (task[t].pc = "fetch" /\ task'[t].pc = "respond")
            => /\ task'[t].range = (IF task[t].file_path \in DOMAIN files
                                    THEN Len(files[task[t].file_path].data) ELSE 0)
               /\ (server = "range" /\ task'[t].range < TrackChunks)
                      => task'[t].rem = SubSeq(Content(album.tracks[t]),
                                               task'[t].range + 1, TrackChunks)
\* a path with a final extension comes to hold a file only by the rename
\* of a task whose stream is exhausted
C18_RenameLast ==
    \A p \in DOMAIN files' :
        ((EndsWith(p, ".mp3") \/ EndsWith(p, ".flac")) /\ p \notin DOMAIN files)
            => \E t \in Tracks :
                /\ task[t].pc = "write" /\ task'[t].pc = "tag"
                /\ task[t].rem = <<>>
                /\ task'[t].c_path = p
\* tags are written to the path the task itself renamed to, which has a
\* final extension
C18_TagAfterRename ==
    /\ \A t \in Tracks :
         (task[t].pc # "tag" /\ task'[t].pc = "tag")
             => /\ task[t].pc = "write"
                /\ task'[t].c_path \in DOMAIN files'
                /\ task'[t].file_path \notin DOMAIN files'
                /\ EndsWith(task'[t].c_path, ".mp3") \/ EndsWith(task'[t].c_path, ".flac")
    /\ \A p \in DOMAIN files :
         (p \in DOMAIN files' /\ files'[p].tags > files[p].tags)
             => \E t \in Tracks :
                 /\ task[t].pc = "tag" /\ task'[t].pc = "done"
                 /\ p = task[t].c_path
                 /\ EndsWith(p, ".mp3") \/ EndsWith(p, ".flac")

C19_Written ==
    \A t \in Tracks :
        (/\ task[t].pc = "respond"
         /\ Classify(task[t].url) # ".m4a"
         /\ task[t].status # NotFound
         /\ task'[t] # task[t]
         /\ phase' = "pool")
            => /\ task'[t].pc = "open"
               /\ task'[t].rem = task[t].rem
               /\ task'[t].quality = Classify(task[t].url)
\* the body of such an answer is appended chunk by chunk and the file is
\* renamed when none is left
C19_Appended ==
    \A t \in Tracks :
        (/\ task[t].pc = "write"
         /\ task[t].status \notin { 200, 206 }
         /\ task'[t].pc \in { "write", "tag" }
         /\ task'[t].rem # task[t].rem \/ task'[t].pc # task[t].pc)
            => IF task[t].rem # <<>>
               THEN /\ task'[t].rem = Tail(task[t].rem)
                    /\ task[t].fd \in DOMAIN files
                           => files'[task[t].fd].data = Append(files[task[t].fd].data, Head(task[t].rem))
               ELSE /\ task'[t].pc = "tag"
                    /\ task'[t].c_path \in DOMAIN files'
\* a track with a finalized file is not requested again
C19_NotAgain ==
    \A t \in Tracks :
        (task[t].pc = "idle" /\ task'[t].pc = "fetch")
            => \A ext \in FinalExts : Final(t, ext) \notin DOMAIN files

\* C19: only .m4a and status 404 keep an answer from being written: the
\* body of any other answer, an error answer too, is appended to the
\* partial file, the file is renamed and handed to _tag, and the track is
\* not requested again once that file exists.
C19_Only404 == [][C19_Written /\ C19_Appended /\ C19_NotAgain]_vars

\* the body of an error answer was finalized and tagged as the track, and
\* the next run skipped the track
C19_Witness ==
    /\ run = 2
    /\ phase = "pool"
    /\ \E t \in Tracks, ext \in FinalExts :
        /\ task[t].pc = "done"
        /\ Final(t, ext) \in DOMAIN files
        /\ files[Final(t, ext)].data = ErrBody
        /\ files[Final(t, ext)].tags = 1

\* --------------------------------------------------------------------- C20
\* C20: over all runs, tags are written at most once to any file of a
\* track.
C20_TaggedOnce == \A p \in DOMAIN files : files[p].tags <= 1

\* the same for the tracks that have their path to themselves, with the
\* reason: tags are written only by the task that renamed the file, in the
\* run of the rename, and a finalized file makes every later task skip
C20_SoleTaggedOnce ==
    \A t \in Tracks :
        (Planned /\ Sole(t)) => \A ext \in FinalExts :
            Final(t, ext) \in DOMAIN files => files[Final(t, ext)].tags <= 1

\* tags are written only by a task that renamed onto the path in this run
\* and sits between its rename and its return; a new run starts no task
\* there
C20_OnlyAfterRename ==
    [][ \A p \in DOMAIN files :
            (p \in DOMAIN files' /\ files'[p].tags > files[p].tags) =>
                \E t \in Tracks : /\ task[t].pc = "tag"
                                  /\ task[t].c_path = p
                                  /\ task'[t].pc = "done" ]_vars

C20_NoCarriedTag ==
    [][ run' # run => \A t \in DOMAIN task' : task'[t].pc # "tag" ]_vars

====
